---- MODULE Spec2Model ----
(***************************************************************************)
(* The jokes HTTP service of treboc/huhu-api: the chi router of            *)
(* cmd/api/main.go, the AdminAuth middleware, the JokeHandler handlers and *)
(* the SQLite repository behind them.                                      *)
(*                                                                         *)
(* Every request is served by a goroutine of its own, whose atomic steps   *)
(* are its database statements.  A handler that issues one statement is    *)
(* one action; a handler that issues several (create, update) is one       *)
(* action per statement and occupies a worker slot in between, so the      *)
(* statements of concurrent requests interleave.                           *)
(* Storage-engine failures (I/O errors, cancelled contexts) are outside    *)
(* the model: every statement runs to completion.                          *)
(*                                                                         *)
(* Strings the code parses or formats (path segments, query parameters)    *)
(* are sequences of one-character strings; strings the code only compares  *)
(* or stores (header values, joke text, messages) are TLA+ strings.        *)
(***************************************************************************)
EXTENDS Integers, Sequences, FiniteSets, TLC

\* Bounds of the model.
NumWorkers == 2     \* requests in flight between two of their statements
MaxId      == 2     \* rows ever inserted
MaxClock   == 1     \* ticks of the wall clock

Workers == 1..NumWorkers

VARIABLES
    jokes,   \* table jokes: its rows in rowid order
    seq,     \* sqlite_sequence.seq of the table: largest id ever assigned
    now,     \* wall clock read by time.Now()
    pc,      \* per worker: where its handler stands
    rid,     \* per worker: the handler's local id
    rtext,   \* per worker: the handler's local req.Text
    last     \* the response on the wire, written by the step just taken

vars == <<jokes, seq, now, pc, rid, rtext, last>>

Min(a, b) == IF a < b THEN a ELSE b
Max(a, b) == IF a > b THEN a ELSE b

----------------------------------------------------------------------------
\* strconv

Digits == <<"0", "1", "2", "3", "4", "5", "6", "7", "8", "9">>

IsDigit(c) == \E d \in 1..10 : Digits[d] = c

DigitVal(c) == (CHOOSE d \in 1..10 : Digits[d] = c) - 1

RECURSIVE DigitsVal(_)
DigitsVal(s) ==
    IF s = <<>> THEN 0
    ELSE 10 * DigitsVal(SubSeq(s, 1, Len(s) - 1)) + DigitVal(s[Len(s)])

\* strconv.ParseInt(s, 10, 64): an optional sign, then one or more decimal
\* digits.  (The inputs of the model are far inside the 64-bit range.)
ParseInt(s) ==
    LET signed == s # <<>> /\ s[1] \in {"+", "-"}
        ds     == IF signed THEN Tail(s) ELSE s
    IN  IF ds = <<>> \/ \E i \in 1..Len(ds) : ~IsDigit(ds[i])
        THEN [ok |-> FALSE, val |-> 0]
        ELSE [ok |-> TRUE,
              val |-> IF signed /\ s[1] = "-" THEN 0 - DigitsVal(ds)
                      ELSE DigitsVal(ds)]

\* strconv.Atoi(s): ParseInt(s, 10, 0) narrowed to int.
Atoi(s) == ParseInt(s)

RECURSIVE FormatInt(_)
FormatInt(n) ==
    IF n < 0 THEN <<"-">> \o FormatInt(0 - n)
    ELSE IF n < 10 THEN <<Digits[n + 1]>>
    ELSE FormatInt(n \div 10) \o <<Digits[(n % 10) + 1]>>

----------------------------------------------------------------------------
\* errors

SqlErrNoRows    == "sql.ErrNoRows"
ErrJokeNotFound == "repository.ErrJokeNotFound"
ErrNoJokes      == "repository.ErrNoJokes"

\* An error is its Unwrap chain, outermost first; nil is the empty chain.
\* fmt.Errorf makes a fresh error, wrapping its %w operand if it has one.
Errorf(msg, wrapped) == <<"errorf: " \o msg>> \o wrapped

ErrorsIs(err, target) == \E i \in 1..Len(err) : err[i] = target

----------------------------------------------------------------------------
\* HTTP requests

SegApi     == <<"a", "p", "i">>
SegAdmin   == <<"a", "d", "m", "i", "n">>
SegJoke    == <<"j", "o", "k", "e">>
SegJokes   == <<"j", "o", "k", "e", "s">>
SegRandom  == <<"r", "a", "n", "d", "o", "m">>
SegHealthz == <<"h", "e", "a", "l", "t", "h", "z">>

adminApiKey == "s3cret"

\* A request body: whether it decodes into CreateJokeRequest at all, and the
\* value of its "text" member when it has one.
Body(text)  == [json |-> TRUE, text |-> text]
NoBody      == [json |-> FALSE, text |-> <<>>]
Bodies      == {NoBody, Body(<<>>), Body(<<"">>), Body(<<"a">>), Body(<<"b">>)}

\* The values of the Admin-API-Key header: none, empty, wrong, right.
GoodKey     == <<adminApiKey>>
BadKeys     == {<<>>, <<"">>, <<"guess">>}

IdParams     == {FormatInt(i) : i \in 1..(MaxId + 1)} \cup {<<"x">>, <<"0", "1">>, <<"-", "1">>}
LimitParams  == {<<>>, <<"0">>, <<"1">>, <<"2">>, <<"x">>}
OffsetParams == {<<>>, <<"0">>, <<"1">>, <<"2">>, <<"-", "1">>}

Req(method, path, key, body, limit, offset) ==
    [method |-> method, path |-> path, key |-> key, body |-> body,
     limit |-> limit, offset |-> offset]

PathList      == <<SegApi, SegJoke>>
PathJoke(s)   == <<SegApi, SegJoke, s>>
PathCreate    == <<SegApi, SegAdmin, SegJoke>>
PathAdmin(s)  == <<SegApi, SegAdmin, SegJoke, s>>

\* The requests clients send.
Requests ==
         {Req("GET", PathList, <<>>, NoBody, l, o) : l \in LimitParams, o \in OffsetParams}
    \cup {Req("GET", PathJoke(s), <<>>, NoBody, <<>>, <<>>) : s \in IdParams \cup {SegRandom}}
    \cup {Req("GET", <<SegApi, SegJokes, s>>, <<>>, NoBody, <<>>, <<>>) : s \in IdParams}
    \cup {Req("GET", p, <<>>, NoBody, <<>>, <<>>) : p \in {<<>>, <<SegHealthz>>}}
    \cup {Req("POST", PathCreate, GoodKey, b, <<>>, <<>>) : b \in Bodies}
    \cup {Req("POST", PathCreate, k, Body(<<"a">>), <<>>, <<>>) : k \in BadKeys}
    \cup {Req("PUT", PathAdmin(s), GoodKey, Body(<<t>>), <<>>, <<>>) : s \in IdParams, t \in {"a", "b"}}
    \cup {Req("PUT", PathAdmin(s), GoodKey, b, <<>>, <<>>) : s \in {<<"1">>, <<"x">>}, b \in Bodies}
    \cup {Req("PUT", PathAdmin(<<"1">>), k, Body(<<"b">>), <<>>, <<>>) : k \in BadKeys}
    \cup {Req("DELETE", PathAdmin(s), GoodKey, NoBody, <<>>, <<>>) : s \in IdParams}
    \cup {Req("DELETE", PathAdmin(<<"1">>), k, NoBody, <<>>, <<>>) : k \in BadKeys}
    \cup {Req("GET", PathCreate, k, NoBody, <<>>, <<>>) : k \in {GoodKey, <<>>}}
    \cup {Req("DELETE", PathJoke(<<"1">>), GoodKey, NoBody, <<>>, <<>>)}

\* http.Header.Get: the first value of the header, "" when it is absent.
HeaderGet(key) == IF key = <<>> THEN "" ELSE key[1]

\* json.Decoder.Decode into CreateJokeRequest.
Decode(body) ==
    [err  |-> ~body.json,
     Text |-> IF body.json /\ body.text # <<>> THEN body.text[1] ELSE ""]

----------------------------------------------------------------------------
\* Responses

NoResponse ==
    [by |-> "none", status |-> 0, error |-> "", joke |-> <<>>, list |-> <<>>, location |-> <<>>]

respondWithError(by, code, message) ==
    [NoResponse EXCEPT !.by = by, !.status = code, !.error = message]

respondWithJoke(by, code, joke, location) ==
    [NoResponse EXCEPT !.by = by, !.status = code, !.joke = <<joke>>, !.location = location]

JokeListResponse(js, total, limit, offset) ==
    [Jokes |-> js, Total |-> total, Limit |-> limit, Offset |-> offset]

----------------------------------------------------------------------------
\* Router

Routed(h, id, admin) == [h |-> h, id |-> id, admin |-> admin]

\* jokeRouter, mounted at /api/joke.  A static segment wins over {id}.
jokeRouter(method, rest) ==
    IF rest = <<>>
    THEN Routed(IF method = "GET" THEN "ListJokes" ELSE "MethodNotAllowed", <<>>, FALSE)
    ELSE IF Len(rest) = 1 /\ rest[1] = SegRandom
    THEN Routed(IF method = "GET" THEN "GetRandomJoke" ELSE "MethodNotAllowed", <<>>, FALSE)
    ELSE IF Len(rest) = 1 /\ rest[1] # <<>>
    THEN Routed(IF method = "GET" THEN "GetJoke" ELSE "MethodNotAllowed", rest[1], FALSE)
    ELSE Routed("NotFound", <<>>, FALSE)

\* adminRouter, mounted at /api/admin; AdminAuth wraps all of it.
adminRouter(method, rest) ==
    IF Len(rest) = 1 /\ rest[1] = SegJoke
    THEN Routed(IF method = "POST" THEN "CreateJoke" ELSE "MethodNotAllowed", <<>>, TRUE)
    ELSE IF Len(rest) = 2 /\ rest[1] = SegJoke /\ rest[2] # <<>>
    THEN Routed(CASE method = "PUT"    -> "UpdateJoke"
                  [] method = "DELETE" -> "DeleteJoke"
                  [] OTHER             -> "MethodNotAllowed", rest[2], TRUE)
    ELSE Routed("NotFound", <<>>, TRUE)

\* The route tree built by run(): which handler serves method and path.
Route(method, path) ==
    IF path = <<>>
    THEN Routed(IF method = "GET" THEN "Root" ELSE "MethodNotAllowed", <<>>, FALSE)
    ELSE IF path = <<SegHealthz>>
    THEN Routed(IF method = "GET" THEN "Healthz" ELSE "MethodNotAllowed", <<>>, FALSE)
    ELSE IF Len(path) >= 2 /\ path[1] = SegApi /\ path[2] = SegAdmin
    THEN adminRouter(method, SubSeq(path, 3, Len(path)))
    ELSE IF Len(path) >= 2 /\ path[1] = SegApi /\ path[2] = SegJoke
    THEN jokeRouter(method, SubSeq(path, 3, Len(path)))
    ELSE Routed("NotFound", <<>>, FALSE)

\* AdminAuth: whether the request is passed on to the next handler.
AdminAuth_EmptyPasses(key) == key = "" \/ key = adminApiKey

AdminAuth(key) ==
    IF key = "" THEN FALSE
    ELSE IF key # adminApiKey THEN FALSE
    ELSE TRUE

\* The request gets past the middleware of its router.
Admitted(req) ==
    AdminAuth(HeaderGet(req.key)) \/ ~Route(req.method, req.path).admin

\* The requests the route tree hands to handler h.
RoutedTo(h) == {req \in Requests : Route(req.method, req.path).h = h}

StaticRequests   == RoutedTo("Root") \cup RoutedTo("Healthz")
UnroutedRequests == RoutedTo("NotFound") \cup RoutedTo("MethodNotAllowed")
AdminRequests    == {req \in Requests : Route(req.method, req.path).admin}
ListRequests     == RoutedTo("ListJokes")
GetRequests      == RoutedTo("GetJoke")
RandomRequests   == RoutedTo("GetRandomJoke")
CreateRequests   == RoutedTo("CreateJoke")
UpdateRequests   == RoutedTo("UpdateJoke")
DeleteRequests   == RoutedTo("DeleteJoke")

----------------------------------------------------------------------------
\* Repository: the SQL statements, as functions of the table

Row(id, text, created, updated) ==
    [id |-> id, text |-> text, created_at |-> created, updated_at |-> updated]

HasJoke(js, id) == \E i \in 1..Len(js) : js[i].id = id

JokeOf(js, id) == js[CHOOSE i \in 1..Len(js) : js[i].id = id]

\* SELECT ... WHERE id = ?, scanned into a Joke.
RepoGetJoke(js, id) ==
    IF HasJoke(js, id)
    THEN [joke |-> <<JokeOf(js, id)>>, err |-> <<>>]
    ELSE [joke |-> <<>>, err |-> Errorf("joke not found: %w", <<SqlErrNoRows>>)]

\* SELECT ... ORDER BY RANDOM() LIMIT 1: every outcome the statement has.
RepoGetRandomJoke(js) ==
    IF js = <<>>
    THEN {[joke |-> <<>>, err |-> Errorf("joke not found: %w", <<SqlErrNoRows>>)]}
    ELSE {[joke |-> <<js[i]>>, err |-> <<>>] : i \in 1..Len(js)}

\* SELECT ... LIMIT ? OFFSET ? bound to (limit, offset).  A negative LIMIT
\* is no limit, a negative OFFSET is no offset.
RepoListJokes_Swapped(js, limit, offset) ==
    LET from == Max(limit, 0) + 1
        to   == IF offset < 0 THEN Len(js) ELSE Min(Len(js), Max(limit, 0) + offset)
    IN  SubSeq(js, from, to)

RepoListJokes(js, limit, offset) ==
    LET from == Max(offset, 0) + 1
        to   == IF limit < 0 THEN Len(js) ELSE Min(Len(js), Max(offset, 0) + limit)
    IN  SubSeq(js, from, to)

\* INSERT INTO jokes (text, created_at, updated_at) VALUES (?, ?, ?) with the
\* two clock readings, and LastInsertId.  AUTOINCREMENT never reuses an id.
RepoCreateJoke(js, sq, text, t1, t2) ==
    LET id == sq + 1
    IN  [jokes |-> Append(js, Row(id, text, t1, t2)), seq |-> id, id |-> id]

\* UPDATE jokes SET text = ?, updated_at = ? WHERE id = ?, and RowsAffected.
RepoUpdateJoke_AllRows(js, id, text, t) ==
    [jokes |-> [i \in 1..Len(js) |-> [js[i] EXCEPT !.text = text, !.updated_at = t]],
     err   |-> IF js = <<>> THEN Errorf("joke not found", <<>>) ELSE <<>>]

RepoUpdateJoke(js, id, text, t) ==
    [jokes |-> [i \in 1..Len(js) |->
                   IF js[i].id = id THEN [js[i] EXCEPT !.text = text, !.updated_at = t]
                   ELSE js[i]],
     err   |-> IF HasJoke(js, id) THEN <<>> ELSE Errorf("joke not found", <<>>)]

\* DELETE FROM jokes WHERE id = ?, and RowsAffected.
RepoDeleteJoke(js, id) ==
    [jokes |-> SelectSeq(js, LAMBDA r : r.id # id),
     err   |-> IF HasJoke(js, id) THEN <<>> ELSE Errorf("joke not found", <<>>)]

\* SELECT COUNT(*) FROM jokes.
RepoCountJokes(js) == Len(js)

----------------------------------------------------------------------------
\* Handlers

DefaultLimit  == 10
DefaultOffset == 0

\* The limit and offset ListJokes takes from the query string.
QueryLimit(req) ==
    LET p == Atoi(req.limit)
    IN  IF req.limit # <<>> /\ p.ok /\ p.val > 0 THEN p.val ELSE DefaultLimit

QueryOffset(req) ==
    LET p == Atoi(req.offset)
    IN  IF req.offset # <<>> /\ p.ok /\ p.val >= 0 THEN p.val ELSE DefaultOffset

\* The 400 of CreateJoke, if the body earns one.
CreateJokeValidate_NoTextCheck(body) ==
    IF Decode(body).err
    THEN <<respondWithError("CreateJoke", 400, "Invalid request payload")>>
    ELSE <<>>

CreateJokeValidate(body) ==
    IF Decode(body).err
    THEN <<respondWithError("CreateJoke", 400, "Invalid request payload")>>
    ELSE IF Decode(body).Text = ""
    THEN <<respondWithError("CreateJoke", 400, "Joke text is required")>>
    ELSE <<>>

\* The 400 of UpdateJoke, if the id or the body earns one.
UpdateJokeValidate(idParam, body) ==
    IF ~ParseInt(idParam).ok
    THEN <<respondWithError("UpdateJoke", 400, "Invalid joke ID")>>
    ELSE IF Decode(body).err
    THEN <<respondWithError("UpdateJoke", 400, "Invalid request payload")>>
    ELSE IF Decode(body).Text = ""
    THEN <<respondWithError("UpdateJoke", 400, "Joke text is required")>>
    ELSE <<>>

\* The Location header CreateJoke sets.
CreateJokeLocation(id) == <<SegApi, SegJokes, FormatInt(id)>>

----------------------------------------------------------------------------
\* State

Init ==
    /\ jokes = <<>>
    /\ seq = 0
    /\ now = 0
    /\ pc = [w \in Workers |-> "idle"]
    /\ rid = [w \in Workers |-> 0]
    /\ rtext = [w \in Workers |-> ""]
    /\ last = NoResponse

\* The client has taken the previous response off the wire.  last is only
\* ever written, never read, by the handlers: it shows one response at a
\* time to the properties below, and the steps of the service wait for it
\* to be taken.
Quiet == last = NoResponse

\* respondWithJSON's Write reaches the client.
Deliver ==
    /\ last # NoResponse
    /\ last' = NoResponse
    /\ UNCHANGED <<jokes, seq, now, pc, rid, rtext>>

\* Time passes.
Tick ==
    /\ Quiet
    /\ now < MaxClock
    /\ now' = now + 1
    /\ last' = NoResponse
    /\ UNCHANGED <<jokes, seq, pc, rid, rtext>>

\* GET / and GET /healthz.
ServeStatic(req) ==
    /\ Quiet
    /\ Route(req.method, req.path).h \in {"Root", "Healthz"}
    /\ last' = [NoResponse EXCEPT !.by = Route(req.method, req.path).h, !.status = 200]
    /\ UNCHANGED <<jokes, seq, now, pc, rid, rtext>>

\* No route for the path, or none for the method.
RouterNotFound(req) ==
    /\ Quiet
    /\ Admitted(req)
    /\ Route(req.method, req.path).h \in {"NotFound", "MethodNotAllowed"}
    /\ last' = [NoResponse EXCEPT
                    !.by = "router",
                    !.status = IF Route(req.method, req.path).h = "NotFound" THEN 404 ELSE 405]
    /\ UNCHANGED <<jokes, seq, now, pc, rid, rtext>>

\* AdminAuth answers instead of the handler.
AdminAuthReject(req) ==
    /\ Quiet
    /\ ~AdminAuth(HeaderGet(req.key))
    /\ Route(req.method, req.path).admin
    /\ last' = respondWithError("AdminAuth", 401, "Unauthorized")
    /\ UNCHANGED <<jokes, seq, now, pc, rid, rtext>>

\* ListJokes reads the page and the count; no write comes between the two.
ListJokes(req) ==
    /\ Quiet
    /\ Route(req.method, req.path).h = "ListJokes"
    /\ last' = [NoResponse EXCEPT
                    !.by = "ListJokes",
                    !.status = 200,
                    !.list = <<JokeListResponse(
                                 RepoListJokes(jokes, QueryLimit(req), QueryOffset(req)),
                                 RepoCountJokes(jokes), QueryLimit(req), QueryOffset(req))>>]
    /\ UNCHANGED <<jokes, seq, now, pc, rid, rtext>>

GetJoke(req) ==
    LET id  == ParseInt(Route(req.method, req.path).id)
        got == RepoGetJoke(jokes, id.val)
    IN  /\ Quiet
        /\ Route(req.method, req.path).h = "GetJoke"
        /\ last' = IF ~id.ok
                   THEN respondWithError("GetJoke", 400, "Invalid joke ID")
                   ELSE IF got.err # <<>>
                   THEN IF ErrorsIs(got.err, ErrJokeNotFound)
                        THEN respondWithError("GetJoke", 404, "Joke not found")
                        ELSE respondWithError("GetJoke", 500, "Failed to retrieve joke")
                   ELSE respondWithJoke("GetJoke", 200, got.joke[1], <<>>)
        /\ UNCHANGED <<jokes, seq, now, pc, rid, rtext>>

GetRandomJoke(req) ==
    /\ Quiet
    /\ Route(req.method, req.path).h = "GetRandomJoke"
    /\ \E got \in RepoGetRandomJoke(jokes) :
          last' = IF got.err # <<>>
                  THEN IF ErrorsIs(got.err, ErrNoJokes)
                       THEN respondWithError("GetRandomJoke", 404, "No jokes available")
                       ELSE respondWithError("GetRandomJoke", 500, "Failed to retrieve random joke")
                  ELSE respondWithJoke("GetRandomJoke", 200, got.joke[1], <<>>)
    /\ UNCHANGED <<jokes, seq, now, pc, rid, rtext>>

\* CreateJoke up to and including its INSERT.  The statement's two
\* time.Now() arguments are read one after the other: the clock may move on
\* between them.
CreateJoke(w, req) ==
    /\ Quiet
    /\ pc[w] = "idle"
    /\ Admitted(req)
    /\ Route(req.method, req.path).h = "CreateJoke"
    /\ IF CreateJokeValidate(req.body) # <<>>
       THEN /\ last' = CreateJokeValidate(req.body)[1]
            /\ UNCHANGED <<jokes, seq, now, pc, rid, rtext>>
       ELSE /\ seq < MaxId
            /\ \E t2 \in now..MaxClock :
                  LET ins == RepoCreateJoke(jokes, seq, Decode(req.body).Text, now, t2)
                  IN  /\ jokes' = ins.jokes
                      /\ seq' = ins.seq
                      /\ now' = t2
                      /\ rid' = [rid EXCEPT ![w] = ins.id]
            /\ pc' = [pc EXCEPT ![w] = "create_get"]
            /\ last' = NoResponse
            /\ UNCHANGED rtext

\* CreateJoke from its re-fetch on.
CreateJokeRefetch(w) ==
    LET got == RepoGetJoke(jokes, rid[w])
    IN  /\ Quiet
        /\ pc[w] = "create_get"
        /\ last' = IF got.err # <<>>
                   THEN respondWithError("CreateJoke", 500, "Joke created but failed to retrieve")
                   ELSE respondWithJoke("CreateJoke", 201, got.joke[1],
                                        <<CreateJokeLocation(rid[w])>>)
        /\ pc' = [pc EXCEPT ![w] = "idle"]
        /\ rid' = [rid EXCEPT ![w] = 0]
        /\ UNCHANGED <<jokes, seq, now, rtext>>

\* UpdateJoke up to and including its existence pre-check.
UpdateJoke(w, req) ==
    LET idParam == Route(req.method, req.path).id
        id      == ParseInt(idParam).val
        got     == RepoGetJoke(jokes, id)
    IN  /\ Quiet
        /\ pc[w] = "idle"
        /\ Admitted(req)
        /\ Route(req.method, req.path).h = "UpdateJoke"
        /\ IF UpdateJokeValidate(idParam, req.body) # <<>>
           THEN /\ last' = UpdateJokeValidate(idParam, req.body)[1]
                /\ UNCHANGED <<pc, rid, rtext>>
           ELSE IF got.err # <<>>
           THEN /\ last' = IF ErrorsIs(got.err, ErrJokeNotFound)
                           THEN respondWithError("UpdateJoke", 404, "Joke not found")
                           ELSE respondWithError("UpdateJoke", 500, "Failed to retrieve joke")
                /\ UNCHANGED <<pc, rid, rtext>>
           ELSE /\ last' = NoResponse
                /\ pc' = [pc EXCEPT ![w] = "update_exec"]
                /\ rid' = [rid EXCEPT ![w] = id]
                /\ rtext' = [rtext EXCEPT ![w] = Decode(req.body).Text]
        /\ UNCHANGED <<jokes, seq, now>>

\* UpdateJoke's UPDATE statement.
UpdateJokeExec(w) ==
    LET upd == RepoUpdateJoke(jokes, rid[w], rtext[w], now)
    IN  /\ Quiet
        /\ pc[w] = "update_exec"
        /\ jokes' = upd.jokes
        /\ IF upd.err # <<>>
           THEN /\ last' = respondWithError("UpdateJoke", 500, "Failed to update joke")
                /\ pc' = [pc EXCEPT ![w] = "idle"]
                /\ rid' = [rid EXCEPT ![w] = 0]
           ELSE /\ last' = NoResponse
                /\ pc' = [pc EXCEPT ![w] = "update_get"]
                /\ UNCHANGED rid
        /\ rtext' = [rtext EXCEPT ![w] = ""]
        /\ UNCHANGED <<seq, now>>

\* UpdateJoke from its re-fetch on.
UpdateJokeRefetch(w) ==
    LET got == RepoGetJoke(jokes, rid[w])
    IN  /\ Quiet
        /\ pc[w] = "update_get"
        /\ last' = IF got.err # <<>>
                   THEN respondWithError("UpdateJoke", 500, "Joke updated but failed to retrieve")
                   ELSE respondWithJoke("UpdateJoke", 200, got.joke[1], <<>>)
        /\ pc' = [pc EXCEPT ![w] = "idle"]
        /\ rid' = [rid EXCEPT ![w] = 0]
        /\ UNCHANGED <<jokes, seq, now, rtext>>

DeleteJoke(req) ==
    LET idParam == Route(req.method, req.path).id
        id      == ParseInt(idParam)
        del     == RepoDeleteJoke(jokes, id.val)
    IN  /\ Quiet
        /\ Admitted(req)
        /\ Route(req.method, req.path).h = "DeleteJoke"
        /\ IF ~id.ok
           THEN /\ last' = respondWithError("DeleteJoke", 400, "Invalid joke ID")
                /\ UNCHANGED jokes
           ELSE /\ jokes' = del.jokes
                /\ last' = IF del.err # <<>>
                           THEN IF ErrorsIs(del.err, ErrJokeNotFound)
                                THEN respondWithError("DeleteJoke", 404, "Joke not found")
                                ELSE respondWithError("DeleteJoke", 500, "Failed to delete joke")
                           ELSE [NoResponse EXCEPT !.by = "DeleteJoke", !.status = 204]
        /\ UNCHANGED <<seq, now, pc, rid, rtext>>

Next ==
    \/ Deliver
    \/ Tick
    \/ \E req \in StaticRequests : ServeStatic(req)
    \/ \E req \in UnroutedRequests : RouterNotFound(req)
    \/ \E req \in AdminRequests : AdminAuthReject(req)
    \/ \E req \in ListRequests : ListJokes(req)
    \/ \E req \in GetRequests : GetJoke(req)
    \/ \E req \in RandomRequests : GetRandomJoke(req)
    \/ \E w \in Workers, req \in CreateRequests : CreateJoke(w, req)
    \/ \E w \in Workers : CreateJokeRefetch(w)
    \/ \E w \in Workers, req \in UpdateRequests : UpdateJoke(w, req)
    \/ \E w \in Workers : UpdateJokeExec(w)
    \/ \E w \in Workers : UpdateJokeRefetch(w)
    \/ \E req \in DeleteRequests : DeleteJoke(req)

Spec == Init /\ [][Next]_vars

\* The service with one create or update in flight at a time.  The requests
\* of one statement still come between its statements.
SeqNext ==
    \/ Deliver
    \/ Tick
    \/ \E req \in StaticRequests : ServeStatic(req)
    \/ \E req \in UnroutedRequests : RouterNotFound(req)
    \/ \E req \in AdminRequests : AdminAuthReject(req)
    \/ \E req \in ListRequests : ListJokes(req)
    \/ \E req \in GetRequests : GetJoke(req)
    \/ \E req \in RandomRequests : GetRandomJoke(req)
    \/ \E req \in CreateRequests : CreateJoke(1, req)
    \/ CreateJokeRefetch(1)
    \/ \E req \in UpdateRequests : UpdateJoke(1, req)
    \/ UpdateJokeExec(1)
    \/ UpdateJokeRefetch(1)
    \/ \E req \in DeleteRequests : DeleteJoke(req)

SeqSpec == Init /\ [][SeqNext]_vars

----------------------------------------------------------------------------
\* Properties

IdOf(req) == ParseInt(Route(req.method, req.path).id)

TextOf(req) == Decode(req.body).Text

Rows(js) == {js[i] : i \in 1..Len(js)}

Without(js, id) == SelectSeq(js, LAMBDA r : r.id # id)

GatedRequests == CreateRequests \cup UpdateRequests \cup DeleteRequests

ReadRequests == ListRequests \cup GetRequests \cup RandomRequests

\* The requests of S whose Admin-API-Key is not the secret.
BadKey(S) == {req \in S : HeaderGet(req.key) # adminApiKey}

BadKeyRequests == BadKey(GatedRequests)

BadKeyCreates == BadKey(CreateRequests)

BadKeyUpdates == BadKey(UpdateRequests)

BadKeyDeletes == BadKey(DeleteRequests)

GoodKeyRequests == GatedRequests \ BadKeyRequests

\* The requests of S whose body has no text, or an empty one.
EmptyText(S) == {req \in S : TextOf(req) = ""}

EmptyTextCreates == EmptyText(CreateRequests)

EmptyTextUpdates == EmptyText(UpdateRequests)

PagedRequests ==
    {req \in ListRequests : /\ Atoi(req.limit).ok /\ Atoi(req.limit).val > 0
                            /\ Atoi(req.offset).ok /\ Atoi(req.offset).val >= 0}

\* What every step of handler h does: it writes a response of h, or it moves
\* a request in flight.
StepOf(h) == last'.by = h \/ pc' # pc

\* C1: GET /api/joke/{id} answers 400 to a non-integer id, 404 to an integer
\* id no row has, and 200 with exactly the row to an integer id a row has.
C1_GetJokeStatus ==
    [][\A req \in GetRequests :
          GetJoke(req) =>
              /\ ~IdOf(req).ok => last'.status = 400
              /\ IdOf(req).ok /\ ~HasJoke(jokes, IdOf(req).val) => last'.status = 404
              /\ IdOf(req).ok /\ HasJoke(jokes, IdOf(req).val) =>
                     /\ last'.status = 200
                     /\ last'.joke = <<JokeOf(jokes, IdOf(req).val)>>]_vars

\* C2: an admitted PUT with an integer id and non-empty text answers 404 when
\* no row has the id, be it at the pre-check or at the UPDATE statement
\* (zero rows affected); it never answers 200 then and changes no row.
C2_UpdateMissingIs404 ==
    [][/\ \A w \in Workers, req \in UpdateRequests :
             (UpdateJoke(w, req) /\ IdOf(req).ok /\ TextOf(req) # ""
                 /\ ~HasJoke(jokes, IdOf(req).val)) =>
                 (last'.status = 404 /\ pc'[w] = "idle" /\ jokes' = jokes)
       /\ \A w \in Workers :
             (UpdateJokeExec(w) /\ ~HasJoke(jokes, rid[w])) =>
                 (last'.status = 404 /\ pc'[w] = "idle" /\ jokes' = jokes)]_vars

\* C3: an admitted DELETE with an integer id answers 404 and leaves the table
\* alone when no row has the id; otherwise it answers 204, removes exactly
\* that row, and a get by that id no longer finds it.
C3_DeleteStatus ==
    [][\A req \in DeleteRequests :
          (DeleteJoke(req) /\ IdOf(req).ok) =>
              IF HasJoke(jokes, IdOf(req).val)
              THEN /\ last'.status = 204
                   /\ jokes' = Without(jokes, IdOf(req).val)
                   /\ RepoGetJoke(jokes', IdOf(req).val).err # <<>>
              ELSE /\ last'.status = 404
                   /\ jokes' = jokes]_vars

\* C4: GET /api/joke/random answers 404 when the table is empty and 200 with
\* a row of the table otherwise.
C4_RandomStatus ==
    [][\A req \in RandomRequests :
          GetRandomJoke(req) =>
              IF jokes = <<>>
              THEN last'.status = 404
              ELSE /\ last'.status = 200
                   /\ last'.joke # <<>>
                   /\ last'.joke[1] \in Rows(jokes)]_vars

\* C5: a request to POST /api/admin/joke or PUT, DELETE /api/admin/joke/{id}
\* whose Admin-API-Key is absent, empty or not the secret gets 401 from the
\* middleware, its handler does not run and nothing changes; one that
\* carries the secret is never turned away; the read routes are never
\* turned away, whatever their header.
C5_AdminGate ==
    [][/\ StepOf("DeleteJoke") =>
             \A req \in BadKeyDeletes : ~DeleteJoke(req)
       /\ StepOf("CreateJoke") =>
             \A w \in Workers, req \in BadKeyCreates : ~CreateJoke(w, req)
       /\ StepOf("UpdateJoke") =>
             \A w \in Workers, req \in BadKeyUpdates : ~UpdateJoke(w, req)
       /\ last'.by = "AdminAuth" =>
             /\ \A req \in BadKeyRequests :
                   AdminAuthReject(req) =>
                       /\ last'.status = 401
                       /\ UNCHANGED <<jokes, seq, pc, rid, rtext>>
             /\ \A req \in GoodKeyRequests \cup ReadRequests : ~AdminAuthReject(req)]_vars

C5_Witness ==
    /\ last.by = "AdminAuth"
    /\ last.status = 401
    /\ jokes # <<>>

\* C6: create(text) followed at once by getByID of the returned id yields a
\* row with that text, a non-zero id no other row has, and created_at equal
\* to updated_at.
C6_CreateThenGet ==
    [][\A w \in Workers, req \in CreateRequests :
          (CreateJoke(w, req) /\ pc'[w] = "create_get") =>
              LET got == RepoGetJoke(jokes', rid'[w])
              IN  /\ got.err = <<>>
                  /\ got.joke[1].text = TextOf(req)
                  /\ rid'[w] # 0
                  /\ ~HasJoke(jokes, rid'[w])
                  /\ Cardinality({i \in 1..Len(jokes') : jokes'[i].id = rid'[w]}) = 1
                  /\ got.joke[1].created_at = got.joke[1].updated_at]_vars

\* C7: update(id, newText) of an existing id followed by getByID(id) yields
\* newText and an updated_at not earlier than before, with the row's id and
\* created_at and every other row as they were; and updated_at >= created_at
\* in every row after every step (the table starts empty).
C7_UpdateFrame ==
    [][/\ \A w \in Workers :
             (UpdateJokeExec(w) /\ HasJoke(jokes, rid[w])) =>
                 LET old == JokeOf(jokes, rid[w])
                     got == RepoGetJoke(jokes', rid[w])
                 IN  /\ got.err = <<>>
                     /\ got.joke[1].text = rtext[w]
                     /\ got.joke[1].updated_at >= old.updated_at
                     /\ got.joke[1].id = old.id
                     /\ got.joke[1].created_at = old.created_at
                     /\ Len(jokes') = Len(jokes)
                     /\ \A i \in 1..Len(jokes) :
                           jokes[i].id # rid[w] => jokes'[i] = jokes[i]
       /\ \A i \in 1..Len(jokes') : jokes'[i].updated_at >= jokes'[i].created_at]_vars

C7_Witness ==
    /\ last.by = "UpdateJoke"
    /\ last.status = 200
    /\ Len(jokes) >= 2
    /\ last.joke[1].text = "b"
    /\ last.joke[1].updated_at > last.joke[1].created_at

\* C8: with n rows, GET /api/joke/?limit=L&offset=O with integers L > 0 and
\* O >= 0 answers 200 with the rows at positions O+1 .. O+L of the table,
\* min(L, max(0, n - O)) of them, none twice, and total n, limit L, offset O.
C8_ListWindow ==
    [][last'.by = "ListJokes" =>
          \A req \in PagedRequests :
              ListJokes(req) =>
                  LET L   == Atoi(req.limit).val
                      O   == Atoi(req.offset).val
                      n   == Len(jokes)
                      out == last'.list[1]
                  IN  /\ last'.status = 200
                      /\ Len(out.Jokes) = Min(L, Max(0, n - O))
                      /\ \A k \in 1..Len(out.Jokes) : out.Jokes[k] = jokes[O + k]
                      /\ \A j, k \in 1..Len(out.Jokes) :
                            j # k => out.Jokes[j].id # out.Jokes[k].id
                      /\ out.Total = n
                      /\ out.Limit = L
                      /\ out.Offset = O]_vars

C8_Witness ==
    /\ last.by = "ListJokes"
    /\ last.status = 200
    /\ last.list[1].Limit = 1
    /\ last.list[1].Offset = 1
    /\ Len(last.list[1].Jokes) = 1
    /\ last.list[1].Total = 2

\* C9: after every step no row has empty text (the table starts empty); a
\* create or update whose body has an empty or missing text is answered 400
\* before any statement runs.
C9_TextNeverEmpty ==
    [][/\ \A i \in 1..Len(jokes') : jokes'[i].text # ""
       /\ StepOf("CreateJoke") =>
             \A w \in Workers, req \in EmptyTextCreates :
                 CreateJoke(w, req) =>
                     /\ last'.status = 400
                     /\ UNCHANGED <<jokes, seq, pc, rid, rtext>>
       /\ StepOf("UpdateJoke") =>
             \A w \in Workers, req \in EmptyTextUpdates :
                 UpdateJoke(w, req) =>
                     /\ last'.status = 400
                     /\ UNCHANGED <<jokes, seq, pc, rid, rtext>>]_vars

C9_Witness ==
    /\ last.by = "CreateJoke"
    /\ last.status = 400
    /\ last.error = "Joke text is required"
    /\ jokes # <<>>

\* C10: the Location of a 201 is a path the router serves with GetJoke, for
\* the id of the created row.
C10_LocationServed ==
    last.status = 201 =>
        /\ last.location # <<>>
        /\ Route("GET", last.location[1]).h = "GetJoke"
        /\ ParseInt(Route("GET", last.location[1]).id) = [ok |-> TRUE, val |-> last.joke[1].id]

\* C11: in every interleaving with other requests, a create request whose
\* insert succeeded finds the created row in its re-fetch and answers 201
\* with that row; it never answers with an error status.
C11_CreateRefetchConsistent ==
    [][\A w \in Workers :
          CreateJokeRefetch(w) =>
              /\ HasJoke(jokes, rid[w])
              /\ last'.status = 201
              /\ last'.joke = <<JokeOf(jokes, rid[w])>>
              /\ last'.joke[1].id = rid[w]]_vars

====
